---- MODULE Spec2Model ----
(***************************************************************************)
(* Cue-light system (src/main_app.py): the transmitter's channel state     *)
(* machine, pending-request tracker, revert timers and cue sequencer, the  *)
(* receiver's confirm handshake, and the publish/subscribe transport       *)
(* between them.                                                           *)
(*                                                                         *)
(* One action per GUI event, timer callback or delivered message.  A       *)
(* handler that raises (IndexError on a stale cue pointer, KeyError on a   *)
(* missing channel) keeps the assignments made before the raise and skips  *)
(* the rest, as a PySide6 slot does.                                       *)
(***************************************************************************)
EXTENDS Integers, Sequences, FiniteSets, TLC

\* ------------------------------------------------------------------ bounds
\* uuid4 request ids issued in one run: 1..MaxReq (0 stands for "no id").
MaxReq == 2
\* One-shot revert callbacks pending per channel.
MaxTimers == 2
\* Cues in the cue list, and cue ids the add dialog may create in one run.
MaxCues == 3
MaxNewCues == 1
\* Cue numbers the dialog accepts: 1..MaxCueNumber.
MaxCueNumber == 2

\* The channel columns (the program builds 8: range(1, 9)).
Channels == {1, 2}
\* Receiver names: the receivers attached, and the receiver_name a
\* confirmation may carry.
Names == {"RxA"}
NoRequest == 0
NoName == ""
\* f"{MQTT_APP_ID}/confirmations/{self.transmitter_id}", and no topic (None).
ConfirmationTopic == "cuelight_system/confirmations/tx"
NoTopic == "none"

VARIABLES
  channels_data,         \* TransmitterWindow.channels_data: id -> [status, confirmed_subscribers]
  pending_requests,      \* TransmitterWindow.pending_requests: request id -> channel id
  cues,                  \* TransmitterWindow.cues
  current_cue_index,     \* TransmitterWindow.current_cue_index (0-based, -1: none)
  is_current_cue_armed,  \* TransmitterWindow.is_current_cue_armed
  view,                  \* the visible page of content_stack
  btn_arm_enabled,       \* btn_arm_cue.isEnabled()
  btn_go_enabled,        \* btn_go_cue.isEnabled()
  current_status,        \* ChannelColumnWidget.current_status of each column
  temp_channels_data,    \* ChannelConfigWidget.temp_channels_data
  cues_data,             \* the cues the rows of CueListWidget.table were built from
  timers,                \* QTimer.singleShot callbacks not yet fired, per channel
  next_req,              \* number of uuid4 request ids drawn so far
  next_cue_id,           \* number of uuid4 cue ids drawn so far
  published_rids,        \* request ids that left in a published status message
  tx_out,                \* status messages the transmitter handed to mqtt_worker.publish in the last step
  standby_rids,          \* per channel: the request ids issued since it last entered its present standby status
  timer_tags,            \* per channel, one flag per pending revert callback, oldest first: it was scheduled by the entry into the Go the channel is in
  last_published,        \* per channel, the status of the last status message published for it ("idle": none yet)
  armed_cue,             \* the cue ARM CUE drove to standby when it set is_current_cue_armed (<<>>: flag clear)
  last,                  \* the last event handled: [op, arg (channel or request id), name (receiver)]
  status_net,            \* status messages the transport holds (it may deliver each again, in any order)
  conf_net,              \* confirmations the transport holds
  subscribed_channel_id, \* ReceiverWindow.subscribed_channel_id, per receiver
  current_request_id,    \* ReceiverWindow.current_request_id
  current_response_topic,\* ReceiverWindow.current_response_topic
  is_confirmed,          \* ReceiverWindow.is_confirmed
  status_label,          \* the text of ReceiverWindow.status_label
  channel_name_label,    \* the text of ReceiverWindow.channel_name_label
  is_connected,          \* client.is_connected() of each receiver's MqttWorker
  rx_out                 \* confirmations a receiver handed to mqtt_worker.publish in the last step

txvars == <<channels_data, pending_requests, cues, current_cue_index,
            is_current_cue_armed, view, btn_arm_enabled, btn_go_enabled,
            current_status, temp_channels_data, cues_data, timers, next_req,
            next_cue_id, published_rids, tx_out, standby_rids, timer_tags, armed_cue,
            last_published, last>>

txvars_but_last ==
  <<channels_data, pending_requests, cues, current_cue_index,
    is_current_cue_armed, view, btn_arm_enabled, btn_go_enabled, current_status,
    temp_channels_data, cues_data, timers, next_req, next_cue_id,
    published_rids, tx_out, standby_rids, timer_tags, armed_cue,
    last_published>>

netvars == <<status_net, conf_net>>

rxvars == <<subscribed_channel_id, current_request_id, current_response_topic,
            is_confirmed, status_label, channel_name_label, is_connected,
            rx_out>>

vars == <<txvars, netvars, rxvars>>

\* ----------------------------------------------------------------- helpers
\* `"standby" in status`
IsStandby(s) == s \in {"standby_master", "standby_solo"}

\* The channels of a set as the list Python iterates: ascending ids.
RECURSIVE AscendingSeq(_)
AscendingSeq(S) ==
  IF S = {} THEN <<>>
  ELSE LET m == CHOOSE x \in S : \A y \in S : x <= y
       IN <<m>> \o AscendingSeq(S \ {m})

\* float(self.num_edit.text()) also accepts "nan": a key that is neither less
\* than, equal to nor greater than any key.
NaN == -1

\* `a < b` on the floats of two sort keys.
Lt(a, b) == a # NaN /\ b # NaN /\ a < b

\* list.sort(key=cueNumberFloat) on a list of fewer than 64 elements: the
\* leading run is found (and reversed when strictly descending), then every
\* later element is put in place by binary insertion.  Only `<` is asked of
\* the keys.
RECURSIVE BinaryPos(_, _, _, _)
BinaryPos(sorted, cue, l, r) ==
  IF l >= r THEN l
  ELSE LET p == l + ((r - l) \div 2)
       IN IF Lt(cue.cueNumberFloat, sorted[p + 1].cueNumberFloat)
          THEN BinaryPos(sorted, cue, l, p)
          ELSE BinaryPos(sorted, cue, p + 1, r)

InsertSorted(sorted, cue) ==
  LET pos == BinaryPos(sorted, cue, 0, Len(sorted))
  IN SubSeq(sorted, 1, pos) \o <<cue>> \o SubSeq(sorted, pos + 1, Len(sorted))

Reversed(cs) == [i \in 1..Len(cs) |-> cs[Len(cs) + 1 - i]]

\* count_run: the length of the leading run and whether it descends.
CountRun(cs) ==
  IF Len(cs) < 2 THEN [n |-> Len(cs), descending |-> FALSE]
  ELSE LET down == Lt(cs[2].cueNumberFloat, cs[1].cueNumberFloat)
           Goes(i) == Lt(cs[i].cueNumberFloat, cs[i - 1].cueNumberFloat) = down
           n == CHOOSE k \in 2..Len(cs) :
                  /\ \A i \in 2..k : Goes(i)
                  /\ k < Len(cs) => ~Goes(k + 1)
       IN [n |-> n, descending |-> down]

RECURSIVE InsertFrom(_, _, _)
InsertFrom(sorted, cs, i) ==
  IF i > Len(cs) THEN sorted
  ELSE InsertFrom(InsertSorted(sorted, cs[i]), cs, i + 1)

SortCues(cs) ==
  LET run == CountRun(cs)
      head == SubSeq(cs, 1, run.n)
  IN InsertFrom(IF run.descending THEN Reversed(head) ELSE head, cs, run.n + 1)

\* The label create_default_config gives each channel (the shows here keep
\* it), which every status payload carries and ReceiverWindow shows at start.
ChannelLabel == [c \in Channels |-> IF c = 1 THEN "Channel 1" ELSE "Channel 2"]

\* The labels a channel-config message can carry: the one the channel has, or
\* one typed into the config form.
ConfigLabels == {ChannelLabel[1], "Stage Left"}

\* A fresh channel entry: status idle, no confirmed subscribers.
IdleChannel == [status |-> "idle", confirmed_subscribers |-> <<>>]

\* create_default_config: all channels, no cues.
DefaultShow == [channels |-> Channels, cues |-> <<>>]

\* Show documents the file dialog can open (DefaultShow: missing or corrupt file).
ShowOneCue ==
  [channels |-> Channels,
   cues |-> << [id |-> 101, cueNumberFloat |-> 1, channelsInCue |-> <<1, 2>>] >>]

Shows == {DefaultShow, ShowOneCue}

\* A show file whose cues are not stored in the order of their numbers.
ShowThreeCues ==
  [channels |-> Channels,
   cues |-> << [id |-> 201, cueNumberFloat |-> 3, channelsInCue |-> <<1>>],
               [id |-> 202, cueNumberFloat |-> 1, channelsInCue |-> <<2>>],
               [id |-> 203, cueNumberFloat |-> 2, channelsInCue |-> <<1, 2>>] >>]

ShowsCues == Shows \cup {ShowThreeCues}

\* update_all_channel_displays: every column whose channel is in the store
\* takes the store's status.
update_all_channel_displays(cd, ws) ==
  [c \in Channels |-> IF c \in DOMAIN cd THEN cd[c].status ELSE ws[c]]

\* A variant of update_cue_header_display that leaves ARM CUE enabled on an
\* armed cue.
update_cue_header_display_arm_enabled(idx, cs, armed, btns) ==
  IF idx # -1 /\ cs # <<>>
  THEN IF idx >= Len(cs) THEN btns
       ELSE [arm |-> TRUE, go |-> armed]
  ELSE [arm |-> FALSE, go |-> FALSE]

\* update_cue_header_display: the enabled state of ARM CUE and GO CUE it
\* leaves; on a stale pointer it raises IndexError before touching them.
update_cue_header_display(idx, cs, armed, btns) ==
  IF idx # -1 /\ cs # <<>>
  THEN IF idx >= Len(cs) THEN btns
       ELSE [arm |-> ~armed, go |-> armed]
  ELSE [arm |-> FALSE, go |-> FALSE]

Buttons == [arm |-> btn_arm_enabled, go |-> btn_go_enabled]

SetButtons(b) == btn_arm_enabled' = b.arm /\ btn_go_enabled' = b.go

\* The part of the transmitter that handle_status_change reads and writes.
Tx ==
  [cd |-> channels_data, pr |-> pending_requests, nr |-> next_req,
   tm |-> timers, ws |-> current_status, kn |-> published_rids,
   out |-> <<>>, exc |-> FALSE, ent |-> {}]

Revoke(pr, ch) == [r \in {x \in DOMAIN pr : pr[x] # ch} |-> pr[r]]

\* self.cues[self.current_cue_index] raises IndexError
StalePointer == current_cue_index # -1 /\ current_cue_index >= Len(cues)

\* A variant of handle_status_change whose request id is the channel's number
\* instead of a new uuid4 token.
handle_status_change_channel_token(S, numeric_id, new_status) ==
  IF numeric_id \notin DOMAIN S.cd THEN S
  ELSE
    LET old_status == S.cd[numeric_id].status
        pr1 == IF IsStandby(old_status) /\ ~IsStandby(new_status)
               THEN Revoke(S.pr, numeric_id) ELSE S.pr
        cd1 == [S.cd EXCEPT ![numeric_id].status = new_status]
        request_id == numeric_id
        pr2 == IF IsStandby(new_status)
               THEN pr1 @@ (request_id :> numeric_id) ELSE pr1
        nr1 == IF IsStandby(new_status) THEN S.nr + 1 ELSE S.nr
        payload ==
          [ch |-> numeric_id, status |-> new_status,
           request_id |-> IF IsStandby(new_status) THEN request_id ELSE NoRequest,
           response_topic |-> IF IsStandby(new_status) THEN ConfirmationTopic
                              ELSE NoTopic,
           confirmed_subscribers |-> cd1[numeric_id].confirmed_subscribers]
        ent1 == IF new_status = "go" THEN S.ent \cup {numeric_id} ELSE S.ent
    IN IF StalePointer
       THEN [S EXCEPT !.cd = cd1, !.pr = pr2, !.nr = nr1, !.ent = ent1,
                      !.exc = TRUE]
       ELSE [S EXCEPT !.cd = cd1, !.pr = pr2, !.nr = nr1, !.ent = ent1,
                      !.out = Append(@, payload),
                      !.kn = IF IsStandby(new_status) THEN @ \cup {request_id} ELSE @,
                      !.ws = update_all_channel_displays(cd1, @),
                      !.tm = IF new_status = "go"
                             THEN [@ EXCEPT ![numeric_id] = @ + 1] ELSE @]

\* A variant of handle_status_change without the early return of line 432:
\* the lookup of an unknown channel raises KeyError.
handle_status_change_unguarded(S, numeric_id, new_status) ==
  IF numeric_id \notin DOMAIN S.cd THEN [S EXCEPT !.exc = TRUE]
  ELSE
    LET old_status == S.cd[numeric_id].status
        pr1 == IF IsStandby(old_status) /\ ~IsStandby(new_status)
               THEN Revoke(S.pr, numeric_id) ELSE S.pr
        cd1 == [S.cd EXCEPT ![numeric_id].status = new_status]
        request_id == S.nr + 1
        pr2 == IF IsStandby(new_status)
               THEN pr1 @@ (request_id :> numeric_id) ELSE pr1
        nr1 == IF IsStandby(new_status) THEN request_id ELSE S.nr
        payload ==
          [ch |-> numeric_id, status |-> new_status,
           request_id |-> IF IsStandby(new_status) THEN request_id ELSE NoRequest,
           response_topic |-> IF IsStandby(new_status) THEN ConfirmationTopic
                              ELSE NoTopic,
           confirmed_subscribers |-> cd1[numeric_id].confirmed_subscribers]
        ent1 == IF new_status = "go" THEN S.ent \cup {numeric_id} ELSE S.ent
    IN IF StalePointer
       THEN [S EXCEPT !.cd = cd1, !.pr = pr2, !.nr = nr1, !.ent = ent1,
                      !.exc = TRUE]
       ELSE [S EXCEPT !.cd = cd1, !.pr = pr2, !.nr = nr1, !.ent = ent1,
                      !.out = Append(@, payload),
                      !.kn = IF IsStandby(new_status) THEN @ \cup {request_id} ELSE @,
                      !.ws = update_all_channel_displays(cd1, @),
                      !.tm = IF new_status = "go"
                             THEN [@ EXCEPT ![numeric_id] = @ + 1] ELSE @]

handle_status_change(S, numeric_id, new_status) ==
  IF numeric_id \notin DOMAIN S.cd THEN S
  ELSE
    LET old_status == S.cd[numeric_id].status
        pr1 == IF IsStandby(old_status) /\ ~IsStandby(new_status)
               THEN Revoke(S.pr, numeric_id) ELSE S.pr
        cd1 == [S.cd EXCEPT ![numeric_id].status = new_status]
        request_id == S.nr + 1
        pr2 == IF IsStandby(new_status)
               THEN pr1 @@ (request_id :> numeric_id) ELSE pr1
        nr1 == IF IsStandby(new_status) THEN request_id ELSE S.nr
        payload ==
          [ch |-> numeric_id, status |-> new_status,
           request_id |-> IF IsStandby(new_status) THEN request_id ELSE NoRequest,
           response_topic |-> IF IsStandby(new_status) THEN ConfirmationTopic
                              ELSE NoTopic,
           confirmed_subscribers |-> cd1[numeric_id].confirmed_subscribers]
        ent1 == IF new_status = "go" THEN S.ent \cup {numeric_id} ELSE S.ent
    IN IF StalePointer
       THEN [S EXCEPT !.cd = cd1, !.pr = pr2, !.nr = nr1, !.ent = ent1,
                      !.exc = TRUE]
       ELSE [S EXCEPT !.cd = cd1, !.pr = pr2, !.nr = nr1, !.ent = ent1,
                      !.out = Append(@, payload),
                      !.kn = IF IsStandby(new_status) THEN @ \cup {request_id} ELSE @,
                      !.ws = update_all_channel_displays(cd1, @),
                      !.tm = IF new_status = "go"
                             THEN [@ EXCEPT ![numeric_id] = @ + 1] ELSE @]

\* `for channel_id in ...: self.handle_status_change(channel_id, status)`:
\* an exception leaves the loop.
RECURSIVE for_each_channel(_, _, _)
for_each_channel(S, chs, new_status) ==
  IF chs = <<>> \/ S.exc THEN S
  ELSE for_each_channel(handle_status_change(S, Head(chs), new_status),
                        Tail(chs), new_status)

\* History: a channel that keeps its standby status keeps the request ids
\* issued for it; any change of status starts afresh.
StandbyRids(S) ==
  [c \in Channels |->
     (IF /\ c \in DOMAIN S.cd /\ c \in DOMAIN channels_data
         /\ S.cd[c].status = channels_data[c].status
         /\ IsStandby(S.cd[c].status)
      THEN standby_rids[c] ELSE {})
     \cup {r \in DOMAIN S.pr \ DOMAIN pending_requests : S.pr[r] = c}]

\* History: Qt fires the callbacks of one channel in the order they were
\* scheduled (all wait GO_DURATION_MS).  An entry into Go makes every earlier
\* callback of the channel stale and tags its own; leaving Go makes all stale.
TimerTags(S) ==
  [c \in Channels |->
     LET base == IF S.tm[c] < timers[c] THEN Tail(timer_tags[c])
                 ELSE timer_tags[c]
         stale == [i \in 1..Len(base) |-> FALSE]
     IN IF c \in S.ent
        THEN IF S.tm[c] > Len(base) THEN Append(stale, TRUE) ELSE stale
        ELSE IF c \notin DOMAIN S.cd \/ S.cd[c].status # "go" THEN stale
             ELSE base]

\* History: the status of the last message handed to mqtt_worker.publish for
\* each channel.
LastPublished(S) ==
  [c \in Channels |->
     LET for_c == {i \in 1..Len(S.out) : S.out[i].ch = c}
     IN IF for_c = {} THEN last_published[c]
        ELSE S.out[CHOOSE i \in for_c : \A j \in for_c : j <= i].status]

WithinBounds(S) ==
  /\ S.nr <= MaxReq
  /\ \A c \in Channels : S.tm[c] <= MaxTimers

Commit(S) ==
  /\ WithinBounds(S)
  /\ channels_data' = S.cd
  /\ pending_requests' = S.pr
  /\ next_req' = S.nr
  /\ timers' = S.tm
  /\ current_status' = S.ws
  /\ published_rids' = S.kn
  /\ tx_out' = S.out
  /\ standby_rids' = StandbyRids(S)
  /\ timer_tags' = TimerTags(S)
  /\ last_published' = LastPublished(S)

cuevars == <<cues, current_cue_index, is_current_cue_armed, btn_arm_enabled,
             btn_go_enabled, cues_data, next_cue_id>>

\* ------------------------------------------------------- manual view
master_sb_clicked(c) ==
  /\ Commit(handle_status_change(Tx, c,
        IF current_status[c] = "standby_master" THEN "idle" ELSE "standby_master"))
  /\ last' = [op |-> "master_sb_clicked", arg |-> c, name |-> NoName]
  /\ UNCHANGED <<cuevars, view, temp_channels_data>>

solo_op_clicked(c) ==
  /\ Commit(handle_status_change(Tx, c,
        IF current_status[c] = "standby_solo" THEN "go" ELSE "standby_solo"))
  /\ last' = [op |-> "solo_op_clicked", arg |-> c, name |-> NoName]
  /\ UNCHANGED <<cuevars, view, temp_channels_data>>

\* ------------------------------------------------------- header controls
fire_master_go ==
  /\ Commit(for_each_channel(Tx,
        AscendingSeq({c \in DOMAIN channels_data :
                        channels_data[c].status = "standby_master"}), "go"))
  /\ last' = [op |-> "fire_master_go", arg |-> 0, name |-> NoName]
  /\ UNCHANGED <<cuevars, view, temp_channels_data>>

\* ------------------------------------------------------- revert timer
\* A variant of revert_go_to_idle without the check of the live status.
revert_go_to_idle_unchecked(S, numeric_id) ==
  IF numeric_id \in DOMAIN S.cd
  THEN handle_status_change(
         [S EXCEPT !.cd[numeric_id].confirmed_subscribers = <<>>],
         numeric_id, "idle")
  ELSE S

revert_go_to_idle(S, numeric_id) ==
  IF numeric_id \in DOMAIN S.cd /\ S.cd[numeric_id].status = "go"
  THEN handle_status_change(
         [S EXCEPT !.cd[numeric_id].confirmed_subscribers = <<>>],
         numeric_id, "idle")
  ELSE S

revert_timer_fires(c) ==
  /\ timers[c] > 0
  /\ Commit(revert_go_to_idle([Tx EXCEPT !.tm[c] = @ - 1], c))
  /\ last' = [op |-> "revert_go_to_idle", arg |-> c, name |-> NoName]
  /\ UNCHANGED <<cuevars, view, temp_channels_data>>

\* ------------------------------------------------------- confirmations
\* (`last.present` records whether the sender was in the list of the request's
\* channel when its confirmation arrived.)
\* Variants of on_confirmation_received that the properties must tell apart:
\* one lists the sender on every channel of the store, one drops every
\* confirmation.
on_confirmation_received_every_channel(S, request_id, receiver_name) ==
  IF request_id \in DOMAIN S.pr
  THEN LET cd1 == [c \in DOMAIN S.cd |->
                     [S.cd[c] EXCEPT !.confirmed_subscribers =
                        IF \E i \in 1..Len(@) : @[i] = receiver_name
                        THEN @ ELSE Append(@, receiver_name)]]
       IN [S EXCEPT !.cd = cd1, !.ws = update_all_channel_displays(cd1, @)]
  ELSE S

on_confirmation_received_dropped(S, request_id, receiver_name) == S

\* A variant that removes the request from pending_requests once it has
\* resolved it.
on_confirmation_received_consuming(S, request_id, receiver_name) ==
  IF request_id \in DOMAIN S.pr /\ S.pr[request_id] \in DOMAIN S.cd
  THEN LET channel_id == S.pr[request_id]
           subs == S.cd[channel_id].confirmed_subscribers
           cd1 == IF \E i \in 1..Len(subs) : subs[i] = receiver_name
                  THEN S.cd
                  ELSE [S.cd EXCEPT ![channel_id].confirmed_subscribers =
                                       Append(@, receiver_name)]
       IN [S EXCEPT !.cd = cd1, !.ws = update_all_channel_displays(cd1, @),
                    !.pr = [r \in DOMAIN S.pr \ {request_id} |-> S.pr[r]]]
  ELSE S

\* A variant that appends the name without looking for it in the list.
on_confirmation_received_appending(S, request_id, receiver_name) ==
  IF request_id \in DOMAIN S.pr /\ S.pr[request_id] \in DOMAIN S.cd
  THEN LET cd1 == [S.cd EXCEPT ![S.pr[request_id]].confirmed_subscribers =
                                 Append(@, receiver_name)]
       IN [S EXCEPT !.cd = cd1, !.ws = update_all_channel_displays(cd1, @)]
  ELSE S

on_confirmation_received(S, request_id, receiver_name) ==
  IF request_id \in DOMAIN S.pr /\ S.pr[request_id] \in DOMAIN S.cd
  THEN LET channel_id == S.pr[request_id]
           subs == S.cd[channel_id].confirmed_subscribers
           cd1 == IF \E i \in 1..Len(subs) : subs[i] = receiver_name
                  THEN S.cd
                  ELSE [S.cd EXCEPT ![channel_id].confirmed_subscribers =
                                       Append(@, receiver_name)]
       IN [S EXCEPT !.cd = cd1, !.ws = update_all_channel_displays(cd1, @)]
  ELSE S

confirmation_arrives(request_id, receiver_name) ==
  /\ LET S == on_confirmation_received(Tx, request_id, receiver_name)
     IN Commit(S)
  /\ last' = [op |-> "on_confirmation_received", arg |-> request_id,
              name |-> receiver_name,
              present |->
                /\ request_id \in DOMAIN pending_requests
                /\ pending_requests[request_id] \in DOMAIN channels_data
                /\ LET subs == channels_data[pending_requests[request_id]]
                                  .confirmed_subscribers
                   IN \E i \in 1..Len(subs) : subs[i] = receiver_name]
  /\ UNCHANGED <<cuevars, view, temp_channels_data>>

\* ------------------------------------------------------- cue sequencer
arm_current_cue ==
  /\ last' = [op |-> "arm_current_cue", arg |-> 0, name |-> NoName]
  /\ IF current_cue_index = -1 \/ cues = <<>> \/ StalePointer
     THEN \* early return, or IndexError at cues[current_cue_index]
          /\ Commit(Tx)
          /\ UNCHANGED <<cuevars, view, temp_channels_data>>
     ELSE LET cue == cues[current_cue_index + 1]
              S == for_each_channel(Tx, cue.channelsInCue, "standby_master")
          IN /\ Commit(S)
             /\ is_current_cue_armed' = (S.exc => is_current_cue_armed)
             /\ SetButtons(IF S.exc THEN Buttons
                           ELSE update_cue_header_display(current_cue_index, cues,
                                                          TRUE, Buttons))
             /\ UNCHANGED <<cues, current_cue_index, cues_data, next_cue_id,
                            view, temp_channels_data>>

NextIndex(idx, cs) == IF idx < Len(cs) - 1 THEN idx + 1 ELSE 0

PrevIndex(idx, cs) == IF idx > 0 THEN idx - 1 ELSE Len(cs) - 1

next_cue ==
  /\ last' = [op |-> "next_cue", arg |-> 0, name |-> NoName]
  /\ Commit(Tx)
  /\ IF Len(cues) = 0
     THEN UNCHANGED <<cuevars, view, temp_channels_data>>
     ELSE /\ current_cue_index' = NextIndex(current_cue_index, cues)
          /\ is_current_cue_armed' = FALSE
          /\ SetButtons(update_cue_header_display(current_cue_index', cues,
                                                  FALSE, Buttons))
          /\ UNCHANGED <<cues, cues_data, next_cue_id, view, temp_channels_data>>

prev_cue ==
  /\ last' = [op |-> "prev_cue", arg |-> 0, name |-> NoName]
  /\ Commit(Tx)
  /\ IF Len(cues) = 0
     THEN UNCHANGED <<cuevars, view, temp_channels_data>>
     ELSE /\ current_cue_index' = PrevIndex(current_cue_index, cues)
          /\ is_current_cue_armed' = FALSE
          /\ SetButtons(update_cue_header_display(current_cue_index', cues,
                                                  FALSE, Buttons))
          /\ UNCHANGED <<cues, cues_data, next_cue_id, view, temp_channels_data>>

go_current_cue ==
  /\ last' = [op |-> "go_current_cue", arg |-> 0, name |-> NoName]
  /\ IF ~is_current_cue_armed \/ current_cue_index = -1 \/ StalePointer
     THEN \* early return, or IndexError at cues[current_cue_index]
          /\ Commit(Tx)
          /\ UNCHANGED <<cuevars, view, temp_channels_data>>
     ELSE LET cue == cues[current_cue_index + 1]
              S == for_each_channel(Tx, cue.channelsInCue, "go")
          IN /\ Commit(S)
             /\ IF S.exc
                THEN UNCHANGED <<cuevars, view, temp_channels_data>>
                ELSE \* is_current_cue_armed = False; next_cue()
                     /\ current_cue_index' = NextIndex(current_cue_index, cues)
                     /\ is_current_cue_armed' = FALSE
                     /\ SetButtons(update_cue_header_display(current_cue_index',
                                                             cues, FALSE, Buttons))
                     /\ UNCHANGED <<cues, cues_data, next_cue_id, view,
                                    temp_channels_data>>

\* ------------------------------------------------------- views
\* temp_channels_data is read only by save_changes, which needs the config
\* page shown, and show_channel_config_view overwrites it on the way there;
\* the rows of the cue table are clicked only on the cue page, and
\* show_cues_view rebuilds them on the way there.  Off their page both are
\* kept at NotShown: what they hold there is never read.
NotShown == << >>

show_manual_view ==
  /\ view' = "manual"
  /\ temp_channels_data' = NotShown
  /\ cues_data' = NotShown
  /\ Commit([Tx EXCEPT !.ws = update_all_channel_displays(channels_data, @)])
  /\ last' = [op |-> "show_manual_view", arg |-> 0, name |-> NoName]
  /\ UNCHANGED <<cues, current_cue_index, is_current_cue_armed, btn_arm_enabled,
                 btn_go_enabled, next_cue_id>>

\* update_cues sorts the transmitter's own list in place and rebuilds the rows.
show_cues_view ==
  /\ view' = "cues"
  /\ cues' = SortCues(cues)
  /\ cues_data' = cues'
  /\ SetButtons(update_cue_header_display(current_cue_index, cues',
                                          is_current_cue_armed, Buttons))
  /\ Commit(Tx)
  /\ last' = [op |-> "show_cues_view", arg |-> 0, name |-> NoName]
  /\ temp_channels_data' = NotShown
  /\ UNCHANGED <<current_cue_index, is_current_cue_armed, next_cue_id>>

show_channel_config_view ==
  /\ view' = "config"
  /\ temp_channels_data' = channels_data
  /\ Commit(Tx)
  /\ last' = [op |-> "show_channel_config_view", arg |-> 0, name |-> NoName]
  /\ cues_data' = NotShown
  /\ UNCHANGED <<cues, current_cue_index, is_current_cue_armed, btn_arm_enabled,
                 btn_go_enabled, next_cue_id>>

\* ChannelConfigWidget.save_changes, then TransmitterWindow.on_config_saved.
\* save_changes writes the label of every channel column into the snapshot and
\* raises KeyError when the snapshot lacks one.
on_config_saved ==
  /\ last' = [op |-> "on_config_saved", arg |-> 0, name |-> NoName]
  /\ IF DOMAIN temp_channels_data # Channels
     THEN /\ Commit(Tx)
          /\ UNCHANGED <<cuevars, view, temp_channels_data>>
     ELSE /\ Commit([Tx EXCEPT !.cd = temp_channels_data,
                               !.ws = update_all_channel_displays(
                                        temp_channels_data, @)])
          /\ view' = "manual"
          /\ temp_channels_data' = NotShown
          /\ UNCHANGED cuevars

\* ------------------------------------------------------- show documents
load_config(show) ==
  /\ cues' = SortCues(show.cues)
  /\ current_cue_index' = IF show.cues # <<>> THEN 0 ELSE -1
  /\ LET cd1 == [c \in show.channels |-> IdleChannel]
     IN Commit([Tx EXCEPT !.cd = cd1,
                          !.ws = update_all_channel_displays(cd1, @)])
  /\ SetButtons(update_cue_header_display(current_cue_index', cues',
                                          is_current_cue_armed, Buttons))
  /\ last' = [op |-> "load_config", arg |-> 0, name |-> NoName]
  /\ UNCHANGED <<is_current_cue_armed, cues_data, next_cue_id, view,
                 temp_channels_data>>

handle_new_config ==
  /\ cues' = <<>>
  /\ current_cue_index' = -1
  /\ LET cd1 == [c \in Channels |-> IdleChannel]
     IN Commit([Tx EXCEPT !.cd = cd1,
                          !.ws = update_all_channel_displays(cd1, @)])
  /\ SetButtons(update_cue_header_display(-1, <<>>, is_current_cue_armed, Buttons))
  /\ last' = [op |-> "handle_new_config", arg |-> 0, name |-> NoName]
  /\ UNCHANGED <<is_current_cue_armed, cues_data, next_cue_id, view,
                 temp_channels_data>>

\* ------------------------------------------------------- cue list view
\* What the edit dialog returns on "Save Cue": a valid cue number and the
\* checked channels (one checkbox per channel of the store).
CueNumbers == (1..MaxCueNumber) \cup {NaN}

Selections == {AscendingSeq(s) : s \in SUBSET DOMAIN channels_data}

\* after every cue action: save_config(); show_cues_view()
AfterCueAction(cs) ==
  /\ cues' = SortCues(cs)
  /\ cues_data' = cues'
  /\ view' = "cues"
  /\ SetButtons(update_cue_header_display(current_cue_index, cues',
                                          is_current_cue_armed, Buttons))
  /\ Commit(Tx)
  /\ UNCHANGED <<current_cue_index, is_current_cue_armed, temp_channels_data>>

handle_cue_action_add(num, sel) ==
  /\ Len(cues) < MaxCues
  /\ next_cue_id < MaxNewCues
  /\ next_cue_id' = next_cue_id + 1
  /\ AfterCueAction(Append(cues, [id |-> next_cue_id', cueNumberFloat |-> num,
                                  channelsInCue |-> sel]))
  /\ last' = [op |-> "cue_add", arg |-> 0, name |-> NoName]

ReplaceById(cs, updated) ==
  LET hits == {i \in 1..Len(cs) : cs[i].id = updated.id}
  IN IF hits = {} THEN cs
     ELSE LET first == CHOOSE i \in hits : \A j \in hits : i <= j
          IN [cs EXCEPT ![first] = updated]

handle_cue_action_edit(row, num, sel) ==
  /\ row \in 1..Len(cues_data)
  /\ AfterCueAction(ReplaceById(cues, [id |-> cues_data[row].id,
                                       cueNumberFloat |-> num,
                                       channelsInCue |-> sel]))
  /\ last' = [op |-> "cue_edit", arg |-> 0, name |-> NoName]
  /\ UNCHANGED next_cue_id

\* What can stand in the dialog's Cue Number field when "Save Cue" is clicked.
CueNumberTexts == {"1", " 2 ", "1.0", "nan", "abc", ""}

\* float(text): the value, or ValueError (ok = FALSE).  Surrounding blanks and
\* a fraction of zero are accepted, and so is "nan".
ParseFloat(text) ==
  CASE text \in {"1", "1.0"} -> [ok |-> TRUE, value |-> 1]
    [] text = " 2 " -> [ok |-> TRUE, value |-> 2]
    [] text = "nan" -> [ok |-> TRUE, value |-> NaN]
    [] OTHER -> [ok |-> FALSE, value |-> 0]

\* A variant of on_save that writes the dialog's fields into cue_data before
\* it parses the number.
on_save_writing_first(cue_data, text, sel) ==
  LET parsed == ParseFloat(text)
  IN IF ~parsed.ok
     THEN [accepted |-> FALSE, cue_data |-> [cue_data EXCEPT !.channelsInCue = sel]]
     ELSE [accepted |-> TRUE,
           cue_data |-> [cue_data EXCEPT !.cueNumberFloat = parsed.value,
                                         !.channelsInCue = sel]]

\* CueEditDialog.on_save on the cue being edited: whether the dialog was
\* accepted, and cue_data as it is left (the warning box changes nothing).
on_save(cue_data, text, sel) ==
  LET parsed == ParseFloat(text)
  IN IF ~parsed.ok
     THEN [accepted |-> FALSE, cue_data |-> cue_data]
     ELSE [accepted |-> TRUE,
           cue_data |-> [cue_data EXCEPT !.cueNumberFloat = parsed.value,
                                         !.channelsInCue = sel]]

\* The list cs after the dict `old` it holds was written to in place.
WrittenInPlace(cs, old, new) ==
  [i \in 1..Len(cs) |-> IF cs[i] = old THEN new ELSE cs[i]]

\* "Edit" on a row, "Save Cue" on a text on_save rejects, then "Cancel".  The
\* dialog's cue_data is the very dict the row holds, and self.cues holds it
\* too unless a show was loaded since the table was drawn, so whatever on_save
\* wrote into it is in the lists; nothing is sorted, saved or redrawn.
handle_cue_action_edit_rejected(row, text, sel) ==
  /\ row \in 1..Len(cues_data)
  /\ LET r == on_save(cues_data[row], text, sel)
     IN /\ ~r.accepted
        /\ cues' = WrittenInPlace(cues, cues_data[row], r.cue_data)
        /\ cues_data' = WrittenInPlace(cues_data, cues_data[row], r.cue_data)
  /\ Commit(Tx)
  /\ last' = [op |-> "cue_edit_rejected", arg |-> 0, name |-> NoName]
  /\ UNCHANGED <<current_cue_index, is_current_cue_armed, btn_arm_enabled,
                 btn_go_enabled, next_cue_id, view, temp_channels_data>>

\* "Add New Cue", "Save Cue" on a text float() rejects, then "Cancel": the
\* dialog's own new dict is dropped.
handle_cue_action_add_rejected(text) ==
  /\ ~ParseFloat(text).ok
  /\ Commit(Tx)
  /\ last' = [op |-> "cue_add_rejected", arg |-> 0, name |-> NoName]
  /\ UNCHANGED <<cuevars, view, temp_channels_data>>

RECURSIVE WithoutId(_, _)
WithoutId(cs, id) ==
  IF cs = <<>> THEN <<>>
  ELSE IF Head(cs).id = id THEN WithoutId(Tail(cs), id)
       ELSE <<Head(cs)>> \o WithoutId(Tail(cs), id)

\* The edit dialog of a row ended with the code its "Delete Cue" button passes
\* to done(): the cue of that id leaves the list; current_cue_index and
\* is_current_cue_armed stay as they are.
handle_cue_action_delete(row) ==
  /\ row \in 1..Len(cues_data)
  /\ AfterCueAction(WithoutId(cues, cues_data[row].id))
  /\ last' = [op |-> "cue_delete", arg |-> 0, name |-> NoName]
  /\ UNCHANGED next_cue_id

\* ------------------------------------------------------- receiver
\* ReceiverWindow.handle_mqtt_message on a message of the status topic of
\* channel m.ch: update_display_from_data when that is the subscribed channel.
\* A variant of update_display_from_data that resets the captured request
\* only when the message brings a new one.
update_display_from_data_kept(n, data) ==
  /\ current_request_id' =
       [current_request_id EXCEPT ![n] =
          IF IsStandby(data.status) THEN data.request_id ELSE @]
  /\ current_response_topic' =
       [current_response_topic EXCEPT ![n] =
          IF IsStandby(data.status) THEN data.response_topic ELSE @]
  /\ is_confirmed' = [is_confirmed EXCEPT ![n] = FALSE]
  /\ status_label' =
       [status_label EXCEPT ![n] =
          IF IsStandby(data.status) THEN "STANDBY"
          ELSE IF data.status = "go" THEN "GO!" ELSE "IDLE"]
  /\ channel_name_label' = [channel_name_label EXCEPT ![n] = ChannelLabel[data.ch]]

update_display_from_data(n, data) ==
  /\ current_request_id' =
       [current_request_id EXCEPT ![n] =
          IF IsStandby(data.status) THEN data.request_id ELSE NoRequest]
  /\ current_response_topic' =
       [current_response_topic EXCEPT ![n] =
          IF IsStandby(data.status) THEN data.response_topic ELSE NoTopic]
  /\ is_confirmed' = [is_confirmed EXCEPT ![n] = FALSE]
  /\ status_label' =
       [status_label EXCEPT ![n] =
          IF IsStandby(data.status) THEN "STANDBY"
          ELSE IF data.status = "go" THEN "GO!" ELSE "IDLE"]
  /\ channel_name_label' = [channel_name_label EXCEPT ![n] = ChannelLabel[data.ch]]

handle_mqtt_message(n, m) ==
  /\ IF m.ch = subscribed_channel_id[n]
     THEN update_display_from_data(n, m)
     ELSE UNCHANGED <<current_request_id, current_response_topic, is_confirmed,
                      status_label, channel_name_label>>
  /\ rx_out' = <<>>
  /\ last' = [op |-> "handle_mqtt_message", arg |-> m.request_id, name |-> n]
  /\ UNCHANGED subscribed_channel_id

\* A variant of the config branch that resets the receiver as a status message
\* does.
handle_config_message_resetting(n, ch, label) ==
  /\ IF ch = subscribed_channel_id[n]
     THEN /\ channel_name_label' = [channel_name_label EXCEPT ![n] = label]
          /\ current_request_id' = [current_request_id EXCEPT ![n] = NoRequest]
          /\ current_response_topic' =
               [current_response_topic EXCEPT ![n] = NoTopic]
          /\ is_confirmed' = [is_confirmed EXCEPT ![n] = FALSE]
     ELSE UNCHANGED <<channel_name_label, current_request_id,
                      current_response_topic, is_confirmed>>
  /\ rx_out' = <<>>
  /\ last' = [op |-> "handle_config_message", arg |-> ch, name |-> n]
  /\ UNCHANGED <<subscribed_channel_id, status_label>>

\* handle_mqtt_message on a message of topic .../config/channel/<ch> whose
\* payload carries `label`: the elif branch.
handle_config_message(n, ch, label) ==
  /\ IF ch = subscribed_channel_id[n]
     THEN channel_name_label' = [channel_name_label EXCEPT ![n] = label]
     ELSE UNCHANGED channel_name_label
  /\ rx_out' = <<>>
  /\ last' = [op |-> "handle_config_message", arg |-> ch, name |-> n]
  /\ UNCHANGED <<subscribed_channel_id, current_request_id,
                 current_response_topic, is_confirmed, status_label>>

\* A variant of handle_confirm_press that does not latch is_confirmed.
handle_confirm_press_unlatched(n) ==
  /\ IF current_response_topic[n] # NoTopic /\ current_request_id[n] # NoRequest
     THEN rx_out' = << [request_id |-> current_request_id[n],
                        receiver_name |-> n] >>
     ELSE rx_out' = <<>>
  /\ last' = [op |-> "handle_confirm_press", arg |-> current_request_id[n],
              name |-> n]
  /\ UNCHANGED <<subscribed_channel_id, current_request_id, current_response_topic,
                 is_confirmed, status_label, channel_name_label>>

\* ReceiverWindow.handle_confirm_press (the slot, whatever the button shows).
handle_confirm_press(n) ==
  /\ IF /\ current_response_topic[n] # NoTopic
        /\ current_request_id[n] # NoRequest
        /\ ~is_confirmed[n]
     THEN /\ rx_out' = << [request_id |-> current_request_id[n],
                           receiver_name |-> n] >>
          /\ is_confirmed' = [is_confirmed EXCEPT ![n] = TRUE]
     ELSE /\ rx_out' = <<>>
          /\ UNCHANGED is_confirmed
  /\ last' = [op |-> "handle_confirm_press", arg |-> current_request_id[n],
              name |-> n]
  /\ UNCHANGED <<subscribed_channel_id, current_request_id, current_response_topic,
                 status_label, channel_name_label>>

\* ------------------------------------------------------- initial state
AfterLoad(show) ==
  /\ channels_data = [c \in show.channels |-> IdleChannel]
  /\ cues = SortCues(show.cues)
  /\ current_cue_index = IF show.cues # <<>> THEN 0 ELSE -1
  /\ btn_arm_enabled = (show.cues # <<>>)
  /\ btn_go_enabled = FALSE

\* The state after TransmitterWindow.__init__ (the startup dialog loads a show
\* or starts a new one) and after ReceiverWindow.__init__.
InitFrom(shows) ==
  /\ \E show \in shows : AfterLoad(show)
  /\ pending_requests = << >>
  /\ is_current_cue_armed = FALSE
  /\ view = "manual"
  /\ current_status = [c \in Channels |-> "idle"]
  /\ temp_channels_data = NotShown
  /\ cues_data = NotShown
  /\ timers = [c \in Channels |-> 0]
  /\ next_req = 0
  /\ next_cue_id = 0
  /\ published_rids = {}
  /\ standby_rids = [c \in Channels |-> {}]
  /\ timer_tags = [c \in Channels |-> <<>>]
  /\ tx_out = <<>>
  /\ armed_cue = <<>>
  /\ last_published = [c \in Channels |-> "idle"]
  /\ last = [op |-> "init", arg |-> 0, name |-> NoName]
  /\ status_net = {}
  /\ conf_net = {}
  /\ subscribed_channel_id = [n \in Names |-> 1]
  /\ current_request_id = [n \in Names |-> NoRequest]
  /\ current_response_topic = [n \in Names |-> NoTopic]
  /\ is_confirmed = [n \in Names |-> FALSE]
  /\ status_label = [n \in Names |-> "IDLE"]
  /\ channel_name_label = [n \in Names |-> ChannelLabel[1]]
  /\ is_connected = [n \in Names |-> TRUE]
  /\ rx_out = <<>>

Init == InitFrom(Shows)

\* ------------------------------------------------------- what the GUI lets through
\* The channel columns are on the manual page; _update_nav_buttons hides the
\* MASTER GO and cue controls on the config page; ARM CUE and GO CUE are
\* enabled as update_cue_header_display last left them; the cue table and the
\* config form are on their own pages.
ManualPage == view = "manual"

HeaderControlsVisible == view \in {"manual", "cues"}

CuesPage == view = "cues"

ConfigPage == view = "config"

\* History: arm_current_cue, when it gets past its guard and its loop, sets
\* is_current_cue_armed for the cue under the pointer; that cue is remembered
\* for as long as the flag stays set.
TrackArmed ==
  armed_cue' =
    IF /\ last'.op = "arm_current_cue"
       /\ current_cue_index \in 0..(Len(cues) - 1)
       /\ is_current_cue_armed'
    THEN <<cues[current_cue_index + 1]>>
    ELSE IF is_current_cue_armed' THEN armed_cue ELSE <<>>

\* ------------------------------------------------------- the transmitter alone
\* The transmitter with the transport and the receivers as its environment: a
\* confirmation handed over carries a request id some receiver read from a
\* published status message, or an id this transmitter never issued.  Of the
\* cue dialog's outcomes only deletion is taken here: add and edit keep
\* current_cue_index within the list, deletion is what leaves it past the end.
Detached == UNCHANGED <<netvars, rxvars>> /\ TrackArmed

Next ==
  \/ \E c \in Channels : ManualPage /\ master_sb_clicked(c) /\ Detached
  \/ \E c \in Channels : ManualPage /\ solo_op_clicked(c) /\ Detached
  \/ HeaderControlsVisible /\ fire_master_go /\ Detached
  \/ \E c \in Channels : revert_timer_fires(c) /\ Detached
  \/ \E r \in published_rids \cup {NoRequest}, n \in Names :
        confirmation_arrives(r, n) /\ Detached
  \/ HeaderControlsVisible /\ btn_arm_enabled /\ arm_current_cue /\ Detached
  \/ HeaderControlsVisible /\ btn_go_enabled /\ go_current_cue /\ Detached
  \/ HeaderControlsVisible /\ next_cue /\ Detached
  \/ HeaderControlsVisible /\ prev_cue /\ Detached
  \/ show_manual_view /\ Detached
  \/ show_cues_view /\ Detached
  \/ show_channel_config_view /\ Detached
  \/ ConfigPage /\ on_config_saved /\ Detached
  \/ \E show \in Shows : load_config(show) /\ Detached
  \/ handle_new_config /\ Detached
  \/ \E row \in 1..MaxCues : CuesPage /\ handle_cue_action_delete(row) /\ Detached

Spec == Init /\ [][Next]_vars

\* ------------------------------------------------------- transmitter, transport, receivers
\* Every status message handed to the transport stays deliverable (at least
\* once, again, in any order) to the receivers subscribed to its channel.
Broadcast ==
  /\ status_net' = status_net \cup
       {[ch |-> tx_out'[i].ch, status |-> tx_out'[i].status,
         request_id |-> tx_out'[i].request_id,
         response_topic |-> tx_out'[i].response_topic] : i \in 1..Len(tx_out')}
  /\ UNCHANGED <<conf_net, rxvars>>
  /\ TrackArmed

deliver_status(n, m) ==
  /\ m \in status_net
  /\ is_connected[n]
  /\ m.ch = subscribed_channel_id[n]
  /\ handle_mqtt_message(n, m)
  /\ UNCHANGED <<channels_data, pending_requests, cues, current_cue_index,
                 is_current_cue_armed, view, btn_arm_enabled, btn_go_enabled,
                 current_status, temp_channels_data, cues_data, timers, next_req,
                 next_cue_id, published_rids, tx_out, standby_rids, timer_tags,
                 armed_cue, last_published, netvars, is_connected>>

\* MqttWorker.publish: the message goes to the client only while the client is
\* connected; otherwise the call returns without a word.
publish(connected, msgs) ==
  IF connected THEN {msgs[i] : i \in 1..Len(msgs)} ELSE {}

confirm_pressed(n) ==
  /\ handle_confirm_press(n)
  /\ conf_net' = conf_net \cup publish(is_connected[n], rx_out')
  /\ UNCHANGED <<channels_data, pending_requests, cues, current_cue_index,
                 is_current_cue_armed, view, btn_arm_enabled, btn_go_enabled,
                 current_status, temp_channels_data, cues_data, timers, next_req,
                 next_cue_id, published_rids, tx_out, standby_rids, timer_tags,
                 armed_cue, last_published, status_net, is_connected>>

deliver_confirmation(m) ==
  /\ m \in conf_net
  /\ confirmation_arrives(m.request_id, m.receiver_name)
  /\ Detached

InitE2E == Init /\ cues = <<>>

NextE2E ==
  \/ \E c \in Channels : ManualPage /\ master_sb_clicked(c) /\ Broadcast
  \/ \E c \in Channels : ManualPage /\ solo_op_clicked(c) /\ Broadcast
  \/ HeaderControlsVisible /\ fire_master_go /\ Broadcast
  \/ \E c \in Channels : revert_timer_fires(c) /\ Broadcast
  \/ \E n \in Names : \E m \in status_net : deliver_status(n, m)
  \/ \E n \in Names : confirm_pressed(n)
  \/ \E m \in conf_net : deliver_confirmation(m)

\* The transport delivers every confirmation it holds; nothing obliges the
\* operator or the receivers to act.
FairE2E ==
  \A r \in 1..MaxReq, n \in Names :
    WF_vars(deliver_confirmation([request_id |-> r, receiver_name |-> n]))

SpecE2E == InitE2E /\ [][NextE2E]_vars /\ FairE2E

\* ------------------------------------------------------- config messages on the way
\* SpecE2E's transmitter, transport and receivers, with channel-config messages
\* reaching the receivers at any moment: the transport owes no order between
\* the config topic and the status topic.
deliver_config(n, label) ==
  /\ is_connected[n]
  /\ handle_config_message(n, subscribed_channel_id[n], label)
  /\ UNCHANGED <<txvars_but_last, netvars, is_connected>>

NextConfig ==
  \/ NextE2E
  \/ \E n \in Names, label \in ConfigLabels : deliver_config(n, label)

SpecConfig == InitE2E /\ [][NextConfig]_vars

\* ------------------------------------------------------- receiver settings and the broker link
\* ReceiverWindow.save_settings with another channel chosen in the dialog: the
\* worker is stopped and a new one is set up for the new topics, which is not
\* connected yet.  The old client's on_disconnect may still reach
\* update_connection_status, or not, before its thread is gone.
save_settings(n, channel_id) ==
  /\ subscribed_channel_id' = [subscribed_channel_id EXCEPT ![n] = channel_id]
  /\ is_connected' = [is_connected EXCEPT ![n] = FALSE]
  /\ \E text \in {status_label[n], "DISCONNECTED"} :
        status_label' = [status_label EXCEPT ![n] = text]
  /\ rx_out' = <<>>
  /\ last' = [op |-> "save_settings", arg |-> channel_id, name |-> n]
  /\ UNCHANGED <<current_request_id, current_response_topic, is_confirmed,
                 channel_name_label, txvars_but_last, netvars>>

\* MqttWorker.on_connect with reason code 0: the topics are subscribed;
\* update_connection_status(True) changes nothing.
on_connect(n) ==
  /\ ~is_connected[n]
  /\ is_connected' = [is_connected EXCEPT ![n] = TRUE]
  /\ rx_out' = <<>>
  /\ last' = [op |-> "on_connect", arg |-> 0, name |-> n]
  /\ UNCHANGED <<subscribed_channel_id, current_request_id,
                 current_response_topic, is_confirmed, status_label,
                 channel_name_label, txvars_but_last, netvars>>

\* MqttWorker.on_disconnect (the broker or the network went away), then
\* ReceiverWindow.update_connection_status(False).
on_disconnect(n) ==
  /\ is_connected[n]
  /\ is_connected' = [is_connected EXCEPT ![n] = FALSE]
  /\ status_label' = [status_label EXCEPT ![n] = "DISCONNECTED"]
  /\ rx_out' = <<>>
  /\ last' = [op |-> "on_disconnect", arg |-> 0, name |-> n]
  /\ UNCHANGED <<subscribed_channel_id, current_request_id,
                 current_response_topic, is_confirmed, channel_name_label,
                 txvars_but_last, netvars>>

\* SpecE2E's transmitter, transport and receivers, with the receiver's settings
\* dialog and its link to the broker going down and coming back.
NextLink ==
  \/ NextE2E
  \/ \E n \in Names, channel_id \in Channels : save_settings(n, channel_id)
  \/ \E n \in Names : on_connect(n)
  \/ \E n \in Names : on_disconnect(n)

SpecLink == InitE2E /\ [][NextLink]_vars

\* ------------------------------------------------------- intents and timers only
\* The operator's intents (toggles, MASTER GO, cue arm/go/next/prev) and the
\* revert timers, from a freshly loaded show: no cue edits, no show loads, no
\* config saves.
NextIntents ==
  \/ \E c \in Channels : ManualPage /\ master_sb_clicked(c) /\ Detached
  \/ \E c \in Channels : ManualPage /\ solo_op_clicked(c) /\ Detached
  \/ HeaderControlsVisible /\ fire_master_go /\ Detached
  \/ \E c \in Channels : revert_timer_fires(c) /\ Detached
  \/ HeaderControlsVisible /\ btn_arm_enabled /\ arm_current_cue /\ Detached
  \/ HeaderControlsVisible /\ btn_go_enabled /\ go_current_cue /\ Detached
  \/ HeaderControlsVisible /\ next_cue /\ Detached
  \/ HeaderControlsVisible /\ prev_cue /\ Detached

SpecIntents == Init /\ [][NextIntents]_vars

\* ------------------------------------------------------- the cue list and the sequencer
\* The cue page (add, edit, delete), the pointer buttons and show loads, from
\* any of the shows; no channel changes status.  The dialog's inputs here: any
\* cue number; a new cue takes the first channel, an edited cue keeps its
\* channels.
NewCueSelections == { <<1>> }

InitCues == InitFrom(ShowsCues)

NextCues ==
  \/ show_manual_view /\ Detached
  \/ show_cues_view /\ Detached
  \/ \E num \in CueNumbers, sel \in NewCueSelections :
        CuesPage /\ handle_cue_action_add(num, sel) /\ Detached
  \/ \E row \in 1..Len(cues_data), num \in CueNumbers :
        /\ CuesPage
        /\ handle_cue_action_edit(row, num, cues_data[row].channelsInCue)
        /\ Detached
  \/ \E row \in 1..MaxCues : CuesPage /\ handle_cue_action_delete(row) /\ Detached
  \/ \E row \in 1..MaxCues, text \in CueNumberTexts, sel \in Selections :
        CuesPage /\ handle_cue_action_edit_rejected(row, text, sel) /\ Detached
  \/ \E text \in CueNumberTexts :
        CuesPage /\ handle_cue_action_add_rejected(text) /\ Detached
  \/ HeaderControlsVisible /\ next_cue /\ Detached
  \/ HeaderControlsVisible /\ prev_cue /\ Detached
  \/ \E show \in ShowsCues : load_config(show) /\ Detached
  \/ handle_new_config /\ Detached

SpecCues == InitCues /\ [][NextCues]_vars

\* The sequencer buttons (ARM CUE, GO CUE, Prev, Next), cue deletion and the
\* revert timers, from any of the shows.
NextSequencer ==
  \/ show_manual_view /\ Detached
  \/ show_cues_view /\ Detached
  \/ \E row \in 1..MaxCues : CuesPage /\ handle_cue_action_delete(row) /\ Detached
  \/ HeaderControlsVisible /\ btn_arm_enabled /\ arm_current_cue /\ Detached
  \/ HeaderControlsVisible /\ btn_go_enabled /\ go_current_cue /\ Detached
  \/ HeaderControlsVisible /\ next_cue /\ Detached
  \/ HeaderControlsVisible /\ prev_cue /\ Detached
  \/ \E c \in Channels : revert_timer_fires(c) /\ Detached

SpecSequencer == InitCues /\ [][NextSequencer]_vars

\* ------------------------------------------------------- cue edits under an armed cue
\* ARM CUE and GO CUE with the cue page's add, edit and delete, show loads and
\* the revert timers, from the show of one cue.
InitArmed == InitFrom({ShowOneCue})

NextArmed ==
  \/ show_manual_view /\ Detached
  \/ show_cues_view /\ Detached
  \/ \E num \in CueNumbers, sel \in NewCueSelections :
        CuesPage /\ handle_cue_action_add(num, sel) /\ Detached
  \/ \E row \in 1..Len(cues_data), num \in CueNumbers :
        /\ CuesPage
        /\ handle_cue_action_edit(row, num, cues_data[row].channelsInCue)
        /\ Detached
  \/ \E row \in 1..MaxCues : CuesPage /\ handle_cue_action_delete(row) /\ Detached
  \/ HeaderControlsVisible /\ btn_arm_enabled /\ arm_current_cue /\ Detached
  \/ HeaderControlsVisible /\ btn_go_enabled /\ go_current_cue /\ Detached
  \/ \E c \in Channels : revert_timer_fires(c) /\ Detached
  \/ \E show \in Shows : load_config(show) /\ Detached

SpecArmed == InitArmed /\ [][NextArmed]_vars

\* ------------------------------------------------------- several receivers on a channel
\* The receivers that may be subscribed to one channel, each under its own
\* name (receiver_name of its settings file).
ReceiverNames == {"RxA", "RxB", "RxC"}

\* The operator's toggles, MASTER GO and the revert timers, with the
\* confirmations of any of the receivers arriving in any order, each carrying
\* a request id read from a published status message.
NextReceivers ==
  \/ \E c \in Channels : ManualPage /\ master_sb_clicked(c) /\ Detached
  \/ \E c \in Channels : ManualPage /\ solo_op_clicked(c) /\ Detached
  \/ HeaderControlsVisible /\ fire_master_go /\ Detached
  \/ \E c \in Channels : revert_timer_fires(c) /\ Detached
  \/ \E r \in published_rids, n \in ReceiverNames :
        confirmation_arrives(r, n) /\ Detached

SpecReceivers == InitE2E /\ [][NextReceivers]_vars

\* ------------------------------------------------------- a show with fewer channels
\* A show file that configures channel 1 only and whose cue lists channel 2
\* first: the columns of the manual page, the cue and revert callbacks still
\* pending from the show before can all name a channel the store lacks.
ShowSparse ==
  [channels |-> {1},
   cues |-> << [id |-> 301, cueNumberFloat |-> 1, channelsInCue |-> <<2, 1>>] >>]

ShowsSparse == {ShowOneCue, ShowSparse}

InitSparse == InitFrom(ShowsSparse)

NextSparse ==
  \/ \E c \in Channels : ManualPage /\ master_sb_clicked(c) /\ Detached
  \/ \E c \in Channels : ManualPage /\ solo_op_clicked(c) /\ Detached
  \/ HeaderControlsVisible /\ fire_master_go /\ Detached
  \/ \E c \in Channels : revert_timer_fires(c) /\ Detached
  \/ HeaderControlsVisible /\ btn_arm_enabled /\ arm_current_cue /\ Detached
  \/ HeaderControlsVisible /\ btn_go_enabled /\ go_current_cue /\ Detached
  \/ HeaderControlsVisible /\ next_cue /\ Detached
  \/ HeaderControlsVisible /\ prev_cue /\ Detached
  \/ \E show \in ShowsSparse : load_config(show) /\ Detached

SpecSparse == InitSparse /\ [][NextSparse]_vars

\* ------------------------------------------------------- the transmitter with fair timers
\* Qt fires every pending one-shot timer; nothing obliges the operator to act.
FairTimers == \A c \in Channels : WF_vars(revert_timer_fires(c) /\ Detached)

SpecFair == Spec /\ FairTimers

\* ======================================================= properties
Subscribers(c) == channels_data[c].confirmed_subscribers

Listed(n, c) == \E i \in 1..Len(Subscribers(c)) : Subscribers(c)[i] = n

ListedOnce(n, c) ==
  Cardinality({i \in 1..Len(Subscribers(c)) : Subscribers(c)[i] = n}) = 1

RequestsOf(pr, c) == {r \in DOMAIN pr : pr[r] = c}

\* The transitions of the status table: Idle->StandbyMaster, StandbyMaster->Idle,
\* Idle->StandbySolo, StandbySolo->Go, StandbyMaster->Go, Go->Idle.
TransitionTable ==
  { <<"idle", "standby_master">>, <<"standby_master", "idle">>,
    <<"idle", "standby_solo">>, <<"standby_solo", "go">>,
    <<"standby_master", "go">>, <<"go", "idle">> }

\* C1: under intents and timer firings alone, every change of a channel's
\* status is a transition of the status table (so never Idle->Go, never
\* Go->StandbySolo).
C1_EveryChangeInTable ==
  [][\A c \in Channels :
       channels_data'[c].status # channels_data[c].status
         => <<channels_data[c].status, channels_data'[c].status>> \in TransitionTable]_vars

\* C2: processing a confirmation whose request id R is pending leaves every
\* channel but the one R was issued for untouched, keeps that channel's status
\* and appends the sender's name to its confirmed_subscribers unless it is
\* there; processing one whose id is not pending changes no channel.
C2_ConfirmationFrame ==
  [][last'.op = "on_confirmation_received" =>
       IF last'.arg \in DOMAIN pending_requests
       THEN LET channel_id == pending_requests[last'.arg]
            IN /\ \A c \in Channels \ {channel_id} :
                    channels_data'[c] = channels_data[c]
               /\ channels_data'[channel_id].status = channels_data[channel_id].status
               /\ channels_data'[channel_id].confirmed_subscribers =
                    IF Listed(last'.name, channel_id)
                    THEN Subscribers(channel_id)
                    ELSE Append(Subscribers(channel_id), last'.name)
       ELSE channels_data' = channels_data]_vars

\* A pending confirmation has just been processed and its sender is listed on
\* the channel the request was issued for.
C2_Witness ==
  /\ last.op = "on_confirmation_received"
  /\ last.arg \in DOMAIN pending_requests
  /\ Listed(last.name, pending_requests[last.arg])

\* C3: a confirmation carrying a request id that was issued, but not during
\* the present standby of its channel (the channel has left that standby
\* since), adds no name to any channel's confirmed_subscribers.
C3_RevokedRequestAddsNoName ==
  [][(/\ last'.op = "on_confirmation_received"
      /\ last'.arg \in 1..next_req
      /\ \A c \in Channels : last'.arg \notin standby_rids[c])
       => \A c \in Channels :
            channels_data'[c].confirmed_subscribers = Subscribers(c)]_vars

\* C4 as stated: a confirm press never publishes a confirmation this receiver
\* has already published for the same request id, whatever was delivered in
\* between, and no name is listed twice on a channel.
C4_OnePublishPerRequest ==
  [][/\ last'.op = "handle_confirm_press"
          => \A i \in 1..Len(rx_out') : rx_out'[i] \notin conf_net
     /\ \A c \in Channels, n \in Names :
          Cardinality({i \in 1..Len(channels_data'[c].confirmed_subscribers) :
                         channels_data'[c].confirmed_subscribers[i] = n}) <= 1]_vars

\* C4 amended: a confirm press on a receiver that has pressed since the last
\* status message it processed publishes nothing; a press with a request
\* captured and no press since publishes exactly one confirmation, for the
\* captured id; and no name is ever listed twice on a channel.
C4_ConfirmLatched ==
  /\ [][last'.op = "handle_confirm_press" =>
          LET n == last'.name
          IN IF is_confirmed[n] \/ current_request_id[n] = NoRequest
             THEN rx_out' = <<>> /\ conf_net' = conf_net
             ELSE /\ rx_out' = << [request_id |-> current_request_id[n],
                                   receiver_name |-> n] >>
                  /\ is_confirmed'[n]]_vars
  /\ [](\A c \in Channels, n \in Names : Listed(n, c) => ListedOnce(n, c))

\* A second press for a request already confirmed: it published nothing.
C4_Witness ==
  /\ last.op = "handle_confirm_press"
  /\ rx_out = <<>>
  /\ is_confirmed[last.name]
  /\ [request_id |-> current_request_id[last.name],
      receiver_name |-> last.name] \in conf_net

\* C5: a revert timer that fires while its channel is StandbyMaster leaves
\* the channel (status, confirmed_subscribers) and the pending requests as they
\* are and publishes nothing.
C5_RevertKeepsStandby ==
  [][\A c \in Channels :
       (/\ last'.op = "revert_go_to_idle"
        /\ last'.arg = c
        /\ channels_data[c].status = "standby_master")
         => /\ channels_data' = channels_data
            /\ pending_requests' = pending_requests
            /\ tx_out' = <<>>]_vars

\* The timer of an earlier Go has fired on a channel put back to
\* StandbyMaster, which keeps its request and a confirmed subscriber.
C5_Witness ==
  /\ last.op = "revert_go_to_idle"
  /\ channels_data[last.arg].status = "standby_master"
  /\ RequestsOf(pending_requests, last.arg) # {}
  /\ Subscribers(last.arg) # <<>>

Pressed(n, r) ==
  /\ last.op = "handle_confirm_press"
  /\ last.name = n
  /\ rx_out = << [request_id |-> r, receiver_name |-> n] >>
  /\ channels_data[subscribed_channel_id[n]].status = "standby_master"
  /\ r \in standby_rids[subscribed_channel_id[n]]

\* C7 as stated: once a receiver of c has confirmed while c is still in that
\* StandbyMaster, its name is eventually listed on c exactly once.
C7_HandshakeCompletes ==
  \A n \in Names, r \in 1..MaxReq :
    Pressed(n, r) ~> ListedOnce(n, subscribed_channel_id[n])

\* C7 amended: ... its name is eventually listed on c exactly once, unless c
\* leaves that standby first.
C7_HandshakeCompletesInStandby ==
  \A n \in Names, r \in 1..MaxReq :
    Pressed(n, r) ~> \/ ListedOnce(n, subscribed_channel_id[n])
                     \/ r \notin standby_rids[subscribed_channel_id[n]]

\* The confirmation of the present standby's request has been processed and
\* its sender is listed once.
C7_Witness ==
  /\ last.op = "on_confirmation_received"
  /\ [request_id |-> last.arg, receiver_name |-> last.name] \in conf_net
  /\ \E c \in Channels :
       /\ last.arg \in standby_rids[c]
       /\ channels_data[c].status = "standby_master"
       /\ ListedOnce(last.name, c)

\* C8: a channel that is Go eventually is not (the revert timer takes it to
\* Idle), with fair timers and whatever the operator does or does not do.
C8_GoEventuallyLeft ==
  \A c \in Channels :
    (channels_data[c].status = "go") ~> (channels_data[c].status # "go")

\* The statuses the step's intent requests for channel c.
RequestedStatus(c) ==
  IF last'.op = "master_sb_clicked" /\ last'.arg = c
  THEN {IF current_status[c] = "standby_master" THEN "idle" ELSE "standby_master"}
  ELSE IF last'.op = "solo_op_clicked" /\ last'.arg = c
  THEN {IF current_status[c] = "standby_solo" THEN "go" ELSE "standby_solo"}
  ELSE IF /\ last'.op \in {"arm_current_cue", "go_current_cue"}
          /\ current_cue_index \in 0..(Len(cues) - 1)
          /\ \E i \in 1..Len(cues[current_cue_index + 1].channelsInCue) :
               cues[current_cue_index + 1].channelsInCue[i] = c
  THEN IF last'.op = "arm_current_cue" THEN {"standby_master"}
       ELSE IF is_current_cue_armed THEN {"go"} ELSE {}
  ELSE {}

\* C9: an intent requesting, for a channel, a transition that is not in the
\* status table leaves the channel and its pending requests unchanged, schedules
\* no timer for it and publishes no status message for it.
C9_UnlistedTransitionRejected ==
  [][\A c \in Channels : \A s \in RequestedStatus(c) :
       <<channels_data[c].status, s>> \notin TransitionTable
         => /\ channels_data'[c] = channels_data[c]
            /\ RequestsOf(pending_requests', c) = RequestsOf(pending_requests, c)
            /\ timers'[c] = timers[c]
            /\ \A i \in 1..Len(tx_out') : tx_out'[i].ch # c]_vars

\* C10: in every step that changes a channel's stored status, a status
\* message for that channel carrying the new status is handed to the transport.
C10_StatusChangePublished ==
  [][\A c \in Channels :
       channels_data'[c].status # channels_data[c].status
         => \E i \in 1..Len(tx_out') :
              /\ tx_out'[i].ch = c
              /\ tx_out'[i].status = channels_data'[c].status]_vars

\* The cue list is in ascending order of cueNumberFloat: no cue stands before
\* a cue of a smaller number.
SortedAscending(cs) ==
  \A i, j \in 1..Len(cs) :
    i < j => ~Lt(cs[j].cueNumberFloat, cs[i].cueNumberFloat)

\* C11: after every add, edit and delete of cues and every show load the cue
\* list is in ascending order of cueNumberFloat, so next() from a cue that is
\* not the last goes to a cue whose number is not smaller, and from the last
\* cue to the first.
C11_CueListSorted ==
  /\ [](SortedAscending(cues))
  /\ [][(/\ last'.op = "next_cue"
          /\ current_cue_index \in 0..(Len(cues) - 1))
           => IF current_cue_index = Len(cues) - 1
              THEN current_cue_index' = 0
              ELSE /\ current_cue_index' = current_cue_index + 1
                   /\ ~Lt(cues[current_cue_index' + 1].cueNumberFloat,
                           cues[current_cue_index + 1].cueNumberFloat)]_vars

\* C12: whatever confirmations arrive, again and in any order, no channel's
\* confirmed_subscribers holds a name twice, and a confirmation from a name
\* already in the list of its channel leaves every list as it is.
C12_NoNameTwice ==
  /\ [](\A c \in DOMAIN channels_data : \A i, j \in 1..Len(Subscribers(c)) :
          Subscribers(c)[i] = Subscribers(c)[j] => i = j)
  /\ [][(/\ last'.op = "on_confirmation_received"
          /\ last'.arg \in DOMAIN pending_requests
          /\ Listed(last'.name, pending_requests[last'.arg]))
           => \A c \in Channels :
                channels_data'[c].confirmed_subscribers = Subscribers(c)]_vars

\* A confirmation for a pending request has been processed whose sender was
\* already listed on the request's channel, and is still listed once.
C12_Witness ==
  /\ last.op = "on_confirmation_received"
  /\ last.present
  /\ last.arg \in DOMAIN pending_requests
  /\ ListedOnce(last.name, pending_requests[last.arg])

\* The channels of the cue under the pointer (none when the pointer is not an
\* index of the list).
ChannelsOfCurrentCue ==
  IF current_cue_index \in 0..(Len(cues) - 1)
  THEN {cues[current_cue_index + 1].channelsInCue[i] :
          i \in 1..Len(cues[current_cue_index + 1].channelsInCue)}
  ELSE {}

\* C13: ARM CUE on a valid pointer and a cue that is not armed puts every
\* channel of the current cue in StandbyMaster and sets is_current_cue_armed;
\* on an armed cue or without a valid pointer it changes no channel status,
\* issues no request and publishes nothing.
C13_ArmOnlyWhenValid ==
  [][last'.op = "arm_current_cue" =>
       IF current_cue_index \in 0..(Len(cues) - 1) /\ ~is_current_cue_armed
       THEN /\ is_current_cue_armed'
            /\ \A c \in ChannelsOfCurrentCue :
                 channels_data'[c].status = "standby_master"
            /\ \A c \in Channels \ ChannelsOfCurrentCue :
                 channels_data'[c] = channels_data[c]
       ELSE /\ \A c \in Channels :
                 channels_data'[c].status = channels_data[c].status
            /\ pending_requests' = pending_requests
            /\ tx_out' = <<>>
            /\ is_current_cue_armed' = is_current_cue_armed]_vars

\* ARM CUE has just put the two channels of the current cue in StandbyMaster,
\* each with its request.
C13_Witness ==
  /\ last.op = "arm_current_cue"
  /\ is_current_cue_armed
  /\ Cardinality(ChannelsOfCurrentCue) = 2
  /\ \A c \in ChannelsOfCurrentCue :
       /\ channels_data[c].status = "standby_master"
       /\ RequestsOf(pending_requests, c) # {}
  /\ Len(tx_out) = 2

\* ARM CUE is never enabled on an armed cue.
ArmDisabledWhenArmed == btn_arm_enabled => ~is_current_cue_armed

\* ARM CUE was pressed with the pointer past the end of the list: nothing moved.
ArmOnStalePointer ==
  /\ last.op = "arm_current_cue"
  /\ StalePointer
  /\ ~is_current_cue_armed

C16_ReceiverResets ==
  /\ [][\A n \in Names :
          (last'.op = "handle_mqtt_message" /\ last'.name = n)
            => /\ ~is_confirmed'[n]
               /\ current_request_id'[n] = last'.arg
               /\ (current_request_id'[n] # NoRequest
                      <=> status_label'[n] = "STANDBY")
               /\ (current_response_topic'[n] # NoTopic
                      <=> status_label'[n] = "STANDBY")]_vars
  /\ [](\A n \in Names :
          status_label[n] \in {"GO!", "IDLE"}
            => /\ current_request_id[n] = NoRequest
               /\ current_response_topic[n] = NoTopic)
  /\ [][\A n \in Names :
          (/\ last'.op = "handle_confirm_press"
           /\ last'.name = n
           /\ status_label[n] \in {"GO!", "IDLE"})
            => rx_out' = <<>> /\ conf_net' = conf_net]_vars

\* Confirm was pressed on a receiver that had confirmed a standby and then
\* processed the go message of its channel: it published nothing more.
C16_Witness ==
  /\ last.op = "handle_confirm_press"
  /\ status_label[last.name] = "GO!"
  /\ rx_out = <<>>
  /\ \E m \in conf_net : m.receiver_name = last.name

\* One flag per pending callback.
TagsMatchTimers == \A c \in Channels : Len(timer_tags[c]) = timers[c]

\* C17: a revert callback takes its channel out of Go exactly when it was
\* scheduled by the entry into the Go the channel is in (its generation is
\* the channel's): the callback of an earlier Go does nothing to a later one.
C17_RevertOnlyOwnEntry ==
  [][\A c \in Channels :
       (last'.op = "revert_go_to_idle" /\ last'.arg = c)
         => (channels_data'[c].status # channels_data[c].status
               <=> Head(timer_tags[c]))]_vars

\* C18: every request id in pending_requests belongs to a channel that is in
\* StandbyMaster or StandbySolo, in every state reached by intents, timers,
\* show loads, new shows and channel-config saves.
C18_PendingOnlyInStandby ==
  \A r \in DOMAIN pending_requests :
    /\ pending_requests[r] \in DOMAIN channels_data
    /\ IsStandby(channels_data[pending_requests[r]].status)

Extends(new, old) ==
  Len(new) >= Len(old) /\ SubSeq(new, 1, Len(old)) = old

\* C20: within a show, only a revert that fires on a channel in Go removes a
\* name from the channel's confirmed_subscribers; no intent, no confirmation
\* and no channel-config save does.
C20_OnlyRevertRemovesNames ==
  [][last'.op \notin {"load_config", "handle_new_config"} =>
       \A c \in Channels :
         ~Extends(channels_data'[c].confirmed_subscribers, Subscribers(c))
           => /\ last'.op = "revert_go_to_idle"
              /\ last'.arg = c
              /\ channels_data[c].status = "go"]_vars

\* The operator's named intents.
NamedIntents ==
  {"master_sb_clicked", "solo_op_clicked", "fire_master_go", "arm_current_cue",
   "go_current_cue", "next_cue", "prev_cue"}

C23_StandbyCarriesFreshRequest ==
  [][\A i \in 1..Len(tx_out') :
       LET m == tx_out'[i]
       IN IF IsStandby(m.status)
          THEN /\ m.request_id # NoRequest
               /\ m.request_id \notin 1..next_req
               /\ m.request_id \notin DOMAIN pending_requests
               /\ m.request_id \notin published_rids
               /\ \A j \in 1..Len(tx_out') :
                    j # i => tx_out'[j].request_id # m.request_id
               /\ m.request_id \in DOMAIN pending_requests'
               /\ pending_requests'[m.request_id] = m.ch
               /\ m.response_topic = ConfirmationTopic
          ELSE /\ m.request_id = NoRequest
               /\ m.response_topic = NoTopic]_vars

\* ARM CUE has moved two channels into standby_master: each of the two
\* messages carries its own new request id, mapped to its channel.
C23_Witness ==
  /\ last.op = "arm_current_cue"
  /\ Len(tx_out) = 2
  /\ \A i \in 1..2 : /\ IsStandby(tx_out[i].status)
                      /\ pending_requests[tx_out[i].request_id] = tx_out[i].ch
  /\ tx_out[1].request_id # tx_out[2].request_id
  /\ Cardinality(DOMAIN pending_requests) = 2
  /\ next_req = MaxReq

\* The requests pending for channel c.
PendingFor(pr, c) == {r \in DOMAIN pr : pr[r] = c}

\* C24: an intent, cue step or revert callback that names a channel the store
\* lacks does nothing for that channel: the channel stays absent, no request
\* is issued or revoked for it, no status message is published for it and no
\* timer is scheduled for it; a column click or revert callback on such a
\* channel changes nothing at all; and ARM CUE and GO CUE still move every
\* other channel of the cue and publish its status message.
C24_UnknownChannelNoOp ==
  [][\A c \in Channels \ DOMAIN channels_data :
       last'.op \in NamedIntents \cup {"revert_go_to_idle"} =>
         /\ DOMAIN channels_data' = DOMAIN channels_data
         /\ PendingFor(pending_requests', c) = PendingFor(pending_requests, c)
         /\ \A i \in 1..Len(tx_out') : tx_out'[i].ch # c
         /\ timers'[c] <= timers[c]
         /\ (/\ last'.op \in {"master_sb_clicked", "solo_op_clicked",
                              "revert_go_to_idle"}
             /\ last'.arg = c)
              => /\ channels_data' = channels_data
                 /\ pending_requests' = pending_requests
                 /\ next_req' = next_req
                 /\ tx_out' = <<>>
                 /\ \A d \in Channels \ {c} : timers'[d] = timers[d]
         /\ (/\ last'.op \in {"arm_current_cue", "go_current_cue"}
             /\ current_cue_index \in 0..(Len(cues) - 1)
             /\ last'.op = "go_current_cue" => is_current_cue_armed
             /\ \E k \in 1..Len(cues[current_cue_index + 1].channelsInCue) :
                   cues[current_cue_index + 1].channelsInCue[k] = c)
              => LET chs == cues[current_cue_index + 1].channelsInCue
                     target == IF last'.op = "go_current_cue" THEN "go"
                               ELSE "standby_master"
                 IN \A k \in 1..Len(chs) :
                      chs[k] \in DOMAIN channels_data =>
                        /\ channels_data'[chs[k]].status = target
                        /\ \E i \in 1..Len(tx_out') :
                             /\ tx_out'[i].ch = chs[k]
                             /\ tx_out'[i].status = target]_vars

\* ARM CUE has run on a cue that lists the absent channel 2 before channel 1:
\* channel 1 is in standby_master with its one message published and the cue
\* is armed.
C24_Witness ==
  /\ last.op = "arm_current_cue"
  /\ DOMAIN channels_data = {1}
  /\ cues[current_cue_index + 1].channelsInCue = <<2, 1>>
  /\ channels_data[1].status = "standby_master"
  /\ Len(tx_out) = 1
  /\ tx_out[1].ch = 1
  /\ is_current_cue_armed

\* A revert callback scheduled under the show before has fired for channel 2,
\* which the store lacks.
RevertOnUnknownChannel ==
  /\ last.op = "revert_go_to_idle"
  /\ last.arg = 2
  /\ DOMAIN channels_data = {1}

\* C25: a channel-config message handled by a receiver leaves the receiver's
\* current_request_id, current_response_topic and is_confirmed as they were
\* and publishes nothing, wherever it falls among the status messages.
C25_ConfigKeepsProtocolState ==
  [][last'.op = "handle_config_message" =>
       /\ current_request_id' = current_request_id
       /\ current_response_topic' = current_response_topic
       /\ is_confirmed' = is_confirmed
       /\ rx_out' = <<>>
       /\ conf_net' = conf_net]_vars

\* A config message arrived after the standby status message (the label it
\* set is still shown) and the confirm press that followed has published the
\* confirmation of the pending request.
C25_Witness ==
  \E n \in Names :
    /\ last.op = "handle_confirm_press"
    /\ last.name = n
    /\ channel_name_label[n] = "Stage Left"
    /\ Len(rx_out) = 1
    /\ rx_out[1].request_id \in DOMAIN pending_requests
    /\ is_confirmed[n]

DrivenToGo == {tx_out'[i].ch : i \in {j \in 1..Len(tx_out') : tx_out'[j].status = "go"}}

\* C27: GO CUE pressed while the armed flag is set drives to Go exactly the
\* channels of the cue that ARM CUE drove to standby_master, whatever cue
\* adds, edits, deletions and show loads came in between.
C27_GoFiresArmedCue ==
  [][(last'.op = "go_current_cue" /\ is_current_cue_armed /\ armed_cue # <<>>) =>
       DrivenToGo = {armed_cue[1].channelsInCue[k] :
                       k \in 1..Len(armed_cue[1].channelsInCue)}
                    \cap DOMAIN channels_data]_vars

\* C28: while is_current_cue_armed is set, current_cue_index is an index of
\* the cue list (not -1, not past the end).
C28_ArmedPointerValid ==
  is_current_cue_armed => current_cue_index \in 0..(Len(cues) - 1)

\* C29: every channel has at most one pending request, and a channel in a
\* standby status has exactly one.
C29_OnePendingPerChannel ==
  \A c \in DOMAIN channels_data :
    /\ Cardinality(PendingFor(pending_requests, c)) <= 1
    /\ IsStandby(channels_data[c].status) =>
         Cardinality(PendingFor(pending_requests, c)) = 1

\* C30: for every channel of the store, the status of the last status message
\* published for it (idle when none was) is the channel's status in the store.
C30_PublishedIsStored ==
  \A c \in DOMAIN channels_data : last_published[c] = channels_data[c].status

\* C32: a confirmation whose request id resolves leaves pending_requests as
\* it was, and when its sender is not yet listed on the request's channel the
\* name goes to the end of that channel's confirmed_subscribers, behind the
\* names of the receivers that confirmed the same standby before.
C32_ResolvingKeepsRequest ==
  [][(/\ last'.op = "on_confirmation_received"
      /\ last'.arg \in DOMAIN pending_requests) =>
       LET channel_id == pending_requests[last'.arg]
       IN /\ pending_requests' = pending_requests
          /\ ~Listed(last'.name, channel_id) =>
               channels_data'[channel_id].confirmed_subscribers =
                 Append(Subscribers(channel_id), last'.name)]_vars

\* Three receivers have confirmed the one request ever issued, which is still
\* pending on a channel still in standby; they are listed in the order their
\* confirmations arrived, which is not the order of their names.
C32_Witness ==
  /\ next_req = 1
  /\ DOMAIN pending_requests = {1}
  /\ IsStandby(channels_data[pending_requests[1]].status)
  /\ channels_data[pending_requests[1]].confirmed_subscribers = <<"RxC", "RxA", "RxB">>
  /\ last.op = "on_confirmation_received"
  /\ last.name = "RxB"

\* The channel a request id was issued for, as the status messages tell.
IssuedFor(request_id, c) ==
  \E m \in status_net : m.request_id = request_id /\ m.ch = c

\* C31: every confirmation a confirm press gives to the transport carries a
\* request id issued for the channel the receiver is assigned to at the press.
C31_ConfirmsAssignedChannelOnly ==
  [][\A n \in Names :
       (last'.op = "handle_confirm_press" /\ last'.name = n) =>
         \A m \in conf_net' \ conf_net :
           IssuedFor(m.request_id, subscribed_channel_id[n])]_vars

\* C33: is_confirmed is set only when the transport holds this receiver's
\* confirmation for the request id it has captured.
C33_ConfirmedMeansPublished ==
  \A n \in Names :
    is_confirmed[n] =>
      [request_id |-> current_request_id[n], receiver_name |-> n] \in conf_net
====
